---- MODULE Spec2Model ----
\* Model of crates/mun_runtime/src/assembly.rs: Assembly::load, Assembly::link_all
\* and Assembly::swap, together with the runtime dispatch table, the native
\* libraries and the garbage-collected heap they act on.
EXTENDS Integers, Sequences, FiniteSets, TLC

VARIABLES assemblies, runtime_dispatch_table, heap, libs, gc_strong

vars == <<assemblies, runtime_dispatch_table, heap, libs, gc_strong>>

\* ---------------------------------------------------------------- bounds
\* Number of Assembly values the embedding runtime holds.
MaxAsm == 2
\* Number of native libraries opened over a run (bounds the loads and swaps).
MaxLibs == 3

\* ------------------------------------------------------------- constants
\* abi::ABI_VERSION, the version the runtime was compiled against.
ABI_VERSION == 1

AsmIds == 1..MaxAsm
Names == {"f", "g"}
TypeNames == {"T"}
Paths == {"lib_f", "lib_g", "lib_f2", "bad_abi", "missing"}

\* A null function pointer; a function pointer is <<library instance, name>>.
Null == <<0, "null">>
\* Option::None of DispatchTable::get_fn.
NoDef == [name |-> "", sig |-> 0, fn_ptr |-> Null]
EmptyTable == [n \in Names |-> NoDef]

\* The shared libraries found on disk: what MunLibrary::new, get_abi_version
\* and get_info read from the file at each path. A foreign-code-table entry
\* marked resolved was assigned a pointer by the compiler.
\*   lib_f   exports f with signature 1 and the type T;
\*   lib_g   exports g, calls its own g (assigned by the compiler) and f;
\*   lib_f2  exports f with signature 2 and the type T, calls g and f with
\*           signature 1;
\*   bad_abi was compiled against another ABI version;
\*   missing is not a loadable library.
Library(path) ==
    CASE path = "lib_f" ->
           [exists |-> TRUE, abi_version |-> 1,
            functions |-> <<[name |-> "f", sig |-> 1]>>,
            types |-> {"T"},
            dispatch_table |-> <<>>]
      [] path = "lib_g" ->
           [exists |-> TRUE, abi_version |-> 1,
            functions |-> <<[name |-> "g", sig |-> 1]>>,
            types |-> {},
            dispatch_table |-> <<[name |-> "g", sig |-> 1, resolved |-> TRUE],
                                 [name |-> "f", sig |-> 1, resolved |-> FALSE]>>]
      [] path = "lib_f2" ->
           [exists |-> TRUE, abi_version |-> 1,
            functions |-> <<[name |-> "f", sig |-> 2]>>,
            types |-> {"T"},
            dispatch_table |-> <<[name |-> "g", sig |-> 1, resolved |-> FALSE],
                                 [name |-> "f", sig |-> 1, resolved |-> FALSE]>>]
      [] path = "bad_abi" ->
           [exists |-> TRUE, abi_version |-> 2,
            functions |-> <<[name |-> "f", sig |-> 1]>>,
            types |-> {},
            dispatch_table |-> <<>>]
      [] OTHER ->
           [exists |-> FALSE, abi_version |-> 0,
            functions |-> <<>>, types |-> {}, dispatch_table |-> <<>>]

\* ------------------------------------------------------- dispatch table
insert_fn(table, name, def) == [table EXCEPT ![name] = def]
remove_fn(table, name) == [table EXCEPT ![name] = NoDef]
get_fn(table, name) == table[name]

\* ------------------------------------------------------------- assembly
EmptyInfo == [functions |-> <<>>, types |-> {}, dispatch_table |-> <<>>]
NoAssembly ==
    [library_path |-> "", library |-> 0, legacy_libs |-> <<>>, info |-> EmptyInfo]

Loaded(asms, a) == asms[a].library # 0

\* AssemblyInfo of library instance inst, opened from the file L.
InfoOf(L, inst) ==
    [functions |->
        [i \in 1..Len(L.functions) |->
            [name |-> L.functions[i].name, sig |-> L.functions[i].sig,
             fn_ptr |-> <<inst, L.functions[i].name>>]],
     types |-> {<<inst, t>> : t \in L.types},
     dispatch_table |->
        [i \in 1..Len(L.dispatch_table) |->
            [ptr |-> IF L.dispatch_table[i].resolved
                     THEN <<inst, L.dispatch_table[i].name>> ELSE Null,
             name |-> L.dispatch_table[i].name,
             sig |-> L.dispatch_table[i].sig]]]

get_info(path, inst) == InfoOf(Library(path), inst)

AbiDiffersNever(version) == FALSE

\* Line 32.
AbiDiffers(version) == ABI_VERSION # version

\* Assembly::load of the file L at path, which becomes library instance inst.
\* gc is the strong count of the collector's Arc on entry, the Arc passed in
\* included; allocator_handle tells whether the collector was installed into
\* the opened library's allocator slot. libs lists the libraries that became
\* the library of an Assembly; one rejected for its ABI version is closed
\* before load returns and is not listed.
LoadLibrary(L, path, inst, ls, gc) ==
    IF ~L.exists
    THEN [status |-> "LoadError", libs |-> ls, gc_strong |-> gc - 1,
          allocator_handle |-> FALSE, assembly |-> NoAssembly]
    ELSE IF AbiDiffers(L.abi_version)
    THEN [status |-> "AbiMismatch", libs |-> ls, gc_strong |-> gc - 1,
          allocator_handle |-> FALSE, assembly |-> NoAssembly]
    ELSE [status |-> "ok",
          libs |-> Append(ls, [path |-> path, resident |-> TRUE,
                               allocator_handle |-> TRUE]),
          gc_strong |-> gc + 1,
          allocator_handle |-> TRUE,
          assembly |-> [library_path |-> path, library |-> inst,
                        legacy_libs |-> <<>>,
                        info |-> InfoOf(L, inst)]]

load(path, ls, gc) == LoadLibrary(Library(path), path, Len(ls) + 1, ls, gc)

\* ------------------------------------------------------------- link_all
\* The caller's table and the function's own copy of it.
clone(table) == table

RECURSIVE InsertFns(_, _)
InsertFns(table, fns) ==
    IF fns = <<>> THEN table
    ELSE InsertFns(insert_fn(table, Head(fns).name, Head(fns)), Tail(fns))

RECURSIVE ExportsOfReversed(_, _)
ExportsOfReversed(S, asms) ==
    IF S = <<>> THEN <<>>
    ELSE ExportsOfReversed(Tail(S), asms) \o asms[Head(S)].info.functions

\* The exported functions of the assemblies of S, in iteration order.
RECURSIVE ExportsOf(_, _)
ExportsOf(S, asms) ==
    IF S = <<>> THEN <<>>
    ELSE asms[Head(S)].info.functions \o ExportsOf(Tail(S), asms)

InsertAllAliased(env, fns) ==
    [caller |-> InsertFns(env.caller, fns), local |-> InsertFns(env.local, fns)]

\* Lines 66-71: every insert goes to the local copy.
InsertAll(env, fns) == [env EXCEPT !.local = InsertFns(env.local, fns)]

\* Every foreign-code-table slot of the assemblies of S, as <<assembly, index>>.
RECURSIVE SlotsOf(_, _)
SlotsOf(S, asms) ==
    IF S = <<>> THEN <<>>
    ELSE [i \in 1..Len(asms[Head(S)].info.dispatch_table) |-> <<Head(S), i>>]
         \o SlotsOf(Tail(S), asms)

SlotAt(asms, e) == asms[e[1]].info.dispatch_table[e[2]]

UnassignedAny(asms, e) == TRUE

\* Line 78: only slots without a function pointer are linked.
Unassigned(asms, e) == SlotAt(asms, e).ptr = Null

ToLink(S, asms) == SelectSeq(SlotsOf(S, asms), LAMBDA e : Unassigned(asms, e))

SignatureDiffersNever(proto, def) == FALSE

\* Line 91.
SignatureDiffers(proto, def) == proto.sig # def.sig

WriteSlotSkipped(asms, e, ptr) == asms

\* Line 95.
WriteSlot(asms, e, ptr) ==
    [asms EXCEPT ![e[1]].info.dispatch_table[e[2]].ptr = ptr]

RECURSIVE Sweep(_, _, _, _, _, _)

\* Lines 88-99: the entry e at the head of rest, with its prototype proto and
\* the definition fn_def the table has under its name.
SweepEntry(table, rest, asms, failed, retry, resolved, e, proto, fn_def) ==
    IF fn_def # NoDef
    THEN IF SignatureDiffers(proto, fn_def)
         THEN [err |-> "SignatureMismatch", name |-> proto.name,
               asms |-> asms, failed |-> failed,
               retry |-> retry, resolved |-> resolved]
         ELSE Sweep(table, Tail(rest), WriteSlot(asms, e, fn_def.fn_ptr),
                    failed, TRUE, resolved + 1)
    ELSE Sweep(table, Tail(rest), asms, Append(failed, e), retry, resolved)

\* Lines 87-100: one pass over the outstanding entries.
Sweep(table, rest, asms, failed, retry, resolved) ==
    IF rest = <<>>
    THEN [err |-> "none", name |-> "", asms |-> asms, failed |-> failed,
          retry |-> retry, resolved |-> resolved]
    ELSE SweepEntry(table, rest, asms, failed, retry, resolved,
                    Head(rest), SlotAt(asms, Head(rest)),
                    get_fn(table, SlotAt(asms, Head(rest)).name))

RECURSIVE Loop(_, _, _, _, _, _, _)

AfterSweepRetryBudget(table, to_link, r, sweeps, outstanding) ==
    IF r.err # "none"
    THEN [err |-> r.err, name |-> r.name, asms |-> r.asms,
          to_link |-> to_link, sweeps |-> sweeps, resolved |-> r.resolved,
          outstanding |-> outstanding]
    ELSE Loop(table, r.failed, r.asms, r.failed # <<>> /\ sweeps < 5,
              sweeps, r.resolved, outstanding)

\* Lines 92 and 102-104: after the sweep with result r, return the error or
\* go round again with the failed entries.
AfterSweep(table, to_link, r, sweeps, outstanding) ==
    IF r.err # "none"
    THEN [err |-> r.err, name |-> r.name, asms |-> r.asms,
          to_link |-> to_link, sweeps |-> sweeps, resolved |-> r.resolved,
          outstanding |-> outstanding]
    ELSE Loop(table, r.failed, r.asms, r.retry, sweeps, r.resolved,
              outstanding)

\* Lines 81-104: the retry loop. outstanding records the length of to_link
\* at the start of every sweep.
Loop(table, to_link, asms, retry, sweeps, resolved, outstanding) ==
    IF ~retry
    THEN [err |-> "none", name |-> "", asms |-> asms, to_link |-> to_link,
          sweeps |-> sweeps, resolved |-> resolved,
          outstanding |-> outstanding]
    ELSE AfterSweep(table, to_link,
                    Sweep(table, to_link, asms, <<>>, FALSE, resolved),
                    sweeps + 1, Append(outstanding, Len(to_link)))

HasMissingNever(to_link) == FALSE

\* Line 106.
HasMissing(to_link) == to_link # <<>>

ReturnedCaller(env) == env.caller

\* Line 117: the table handed back is the local copy.
Returned(env) == env.local

\* Lines 92, 106-117: what link_all returns after the loop ended with r.
LinkStatus(r) ==
    IF r.err # "none" THEN r.err
    ELSE IF HasMissing(r.to_link) THEN "MissingDependency"
    ELSE "ok"

MissingNamesNone(asms, to_link) == {}

\* Lines 107-112: the names of the entries left in to_link are logged.
MissingNames(asms, to_link) ==
    {SlotAt(asms, to_link[i]).name : i \in 1..Len(to_link)}

\* The outcome of link_all: the status, the table returned (none on failure),
\* the caller's table and the local copy as the call leaves them, the
\* assemblies with the slots written, the names logged as missing, and the
\* counts of the loop. to_link is the list collected at line 73.
LinkOutcome(env, r, status, to_link) ==
    [status |-> status,
     returned |-> status = "ok",
     table |-> IF status = "ok" THEN Returned(env) ELSE EmptyTable,
     base |-> env.caller,
     local |-> env.local,
     asms |-> r.asms,
     name |-> r.name,
     missing |-> IF status = "MissingDependency"
                 THEN MissingNames(r.asms, r.to_link)
                 ELSE {},
     sweeps |-> r.sweeps,
     resolved |-> r.resolved,
     outstanding |-> r.outstanding,
     to_link |-> to_link]

\* Lines 106-117 after the loop ended with r.
AfterLoop(env, r, to_link) == LinkOutcome(env, r, LinkStatus(r), to_link)

\* Lines 73-117 with the tables env.
LinkEnv(env, to_link, asms) ==
    AfterLoop(env, Loop(env.local, to_link, asms, TRUE, 0, 0, <<>>), to_link)

\* Assembly::link_all(S, base) on the assemblies asms.
link_all(S, asms, base) ==
    LinkEnv(InsertAll([caller |-> base, local |-> clone(base)],
                      ExportsOf(S, asms)),
            ToLink(S, asms), asms)

\* ----------------------------------------------------- garbage collector
\* Mapping::new(old_types, new_types): a type of the old table whose identity
\* is in the new table maps to the new type info, any other is deleted.
Mapping_new(old_types, new_types) ==
    [t \in old_types |->
        IF \E n \in new_types : n[2] = t[2]
        THEN CHOOSE n \in new_types : n[2] = t[2]
        ELSE Null]

\* GarbageCollector::map_memory: objects of a mapped type move to the new
\* type info; objects of a deleted type keep theirs and are reported back.
Deleted(h, mapping) == {t \in h : t \in DOMAIN mapping /\ mapping[t] = Null}

Moved(h, mapping) ==
    {mapping[t] : t \in {u \in h : u \in DOMAIN mapping /\ mapping[u] # Null}}

map_memory(h, mapping) ==
    [heap |-> (h \ DOMAIN mapping) \cup Deleted(h, mapping)
                 \cup Moved(h, mapping),
     deleted |-> Deleted(h, mapping)]

\* ----------------------------------------------------------------- swap
RemoveOldNothing(table, fns) == table

\* Lines 157-160: remove the old assembly's functions.
RECURSIVE RemoveOld(_, _)
RemoveOld(table, fns) ==
    IF fns = <<>> THEN table
    ELSE RemoveOld(remove_fn(table, Head(fns).name), Tail(fns))

\* Assembly::link of the new assembly against the runtime's table: link_all
\* scoped to this one assembly, the table replaced when linking succeeds.
LinkOne(r) ==
    [status |-> r.status,
     assembly |-> r.asms[1],
     table |-> IF r.returned THEN r.table ELSE r.base]

link(new_assembly, table) ==
    LinkOne(link_all(<<1>>, [a \in {1} |-> new_assembly], table))

RetainAlways(deleted_objects) == TRUE

\* Line 170.
Retain(deleted_objects) == deleted_objects # {}

Unload(ls, inst) == [ls EXCEPT ![inst].resident = FALSE]

TakeLegacyNone(new_legacy, old_legacy) == new_legacy

\* Line 165: the new assembly's list takes over the libraries of the old
\* assembly's list, in their order.
TakeLegacy(new_legacy, old_legacy) == new_legacy \o old_legacy

\* Lines 164-175: the new assembly, linked as lk tells, takes over the legacy
\* libraries and the place of self; the old library is kept if retain.
Replace(self, ld, mm, lk, retain) ==
    [status |-> "ok",
     self |-> [lk.assembly EXCEPT
                 !.legacy_libs = IF retain
                                 THEN Append(TakeLegacy(@, self.legacy_libs),
                                             self.library)
                                 ELSE TakeLegacy(@, self.legacy_libs)],
     table |-> lk.table,
     heap |-> mm.heap,
     libs |-> IF retain THEN ld.libs ELSE Unload(ld.libs, self.library),
     gc_strong |-> ld.gc_strong - 1,
     deleted_objects |-> mm.deleted,
     link_status |-> lk.status,
     old_library |-> self.library,
     new_library |-> ld.assembly.library]

\* Lines 128-162 and 170: the heap is mapped, the old functions are removed,
\* the new assembly is linked; its result is not looked at.
Migrate(self, ld, table, mm) ==
    Replace(self, ld, mm,
            link(ld.assembly, RemoveOld(table, self.info.functions)),
            Retain(mm.deleted))

AfterLoadUnchecked(self, ld, table, h) ==
    Migrate(self, ld, table,
            map_memory(h, Mapping_new(self.info.types,
                                      ld.assembly.info.types)))

\* Line 126 returned ld.
AfterLoad(self, ld, table, h) ==
    IF ld.status # "ok"
    THEN [status |-> ld.status, self |-> self, table |-> table, heap |-> h,
          libs |-> ld.libs, gc_strong |-> ld.gc_strong,
          deleted_objects |-> {}, link_status |-> "none",
          old_library |-> self.library, new_library |-> 0]
    ELSE Migrate(self, ld, table,
                 map_memory(h, Mapping_new(self.info.types,
                                           ld.assembly.info.types)))

\* Assembly::swap of self for the library at path. gc is the strong count of
\* the collector on entry.
swap(self, path, table, h, ls, gc) ==
    AfterLoad(self, load(path, ls, gc + 1), table, h)

\* -------------------------------------------------------------- actions
\* Sequences of distinct assemblies: the iterators link_all can be given.
Batches ==
    {s \in UNION {[1..n -> AsmIds] : n \in 0..MaxAsm} :
        \A i, j \in 1..Len(s) : i # j => s[i] # s[j]}

Init ==
    /\ assemblies = [a \in AsmIds |-> NoAssembly]
    /\ runtime_dispatch_table = EmptyTable
    /\ heap = {}
    /\ libs = <<>>
    /\ gc_strong = 1

\* The runtime loads the library at path into its next free place a.
LoadInto(a, r) ==
    /\ assemblies' = [assemblies EXCEPT ![a] = r.assembly]
    /\ libs' = r.libs
    /\ gc_strong' = r.gc_strong
    /\ UNCHANGED <<runtime_dispatch_table, heap>>

Load(a, path) ==
    /\ ~Loaded(assemblies, a)
    /\ \A b \in 1..(a - 1) : Loaded(assemblies, b)
    /\ Len(libs) < MaxLibs
    /\ LoadInto(a, load(path, libs, gc_strong + 1))

\* The batches link_all can be given in the current state.
CanLink(S) == \A i \in 1..Len(S) : Loaded(assemblies, S[i])

\* link_all on the batch S against the runtime's table; the caller installs
\* the table it is handed back.
Linked(r) ==
    /\ assemblies' = r.asms
    /\ runtime_dispatch_table' = IF r.returned THEN r.table ELSE r.base
    /\ UNCHANGED <<heap, libs, gc_strong>>

LinkAll(S) ==
    /\ CanLink(S)
    /\ Linked(link_all(S, assemblies, runtime_dispatch_table))

\* The swaps that can be made in the current state.
CanSwap(a) == Loaded(assemblies, a) /\ Len(libs) < MaxLibs

\* swap of assembly a for the library at path.
Swapped(a, r) ==
    /\ assemblies' = [assemblies EXCEPT ![a] = r.self]
    /\ runtime_dispatch_table' = r.table
    /\ heap' = r.heap
    /\ libs' = r.libs
    /\ gc_strong' = r.gc_strong

Swap(a, path) ==
    /\ CanSwap(a)
    /\ Swapped(a, swap(assemblies[a], path, runtime_dispatch_table, heap,
                       libs, gc_strong))

\* Code of assembly a allocates an object of one of its types.
Alloc(a, t) ==
    /\ Loaded(assemblies, a)
    /\ t \in assemblies[a].info.types
    /\ t \notin heap
    /\ heap' = heap \cup {t}
    /\ UNCHANGED <<assemblies, runtime_dispatch_table, libs, gc_strong>>

Next ==
    \/ \E a \in AsmIds, path \in Paths : Load(a, path)
    \/ \E S \in Batches : LinkAll(S)
    \/ \E a \in AsmIds, path \in Paths : Swap(a, path)
    \/ \E a \in AsmIds, t \in (1..MaxLibs) \X TypeNames : Alloc(a, t)

Spec == Init /\ [][Next]_vars

\* ================================================================ claims
\* The claims are about single calls. Each is stated over every call that can
\* be made in a reachable state: the result of the call is the value the
\* operation's action installs.

\* What link_all returns for the batch S in the current state.
LinkResult(S) == link_all(S, assemblies, runtime_dispatch_table)

\* What swap returns for assembly a and the library at path.
SwapResult(a, path) ==
    swap(assemblies[a], path, runtime_dispatch_table, heap, libs, gc_strong)

Calls == {S \in Batches : CanLink(S)}

Failed(r) == r.status \in {"SignatureMismatch", "MissingDependency"}

SlotIndexes(asms, a) == 1..Len(asms[a].info.dispatch_table)

\* C1: whatever link_all returns, the caller's table maps every name as it
\* did before the call, and a failed call hands back no table.
C1_BaseTableIntact ==
    \A S \in Calls :
        LET r == LinkResult(S) IN
        /\ r.base = runtime_dispatch_table
        /\ Failed(r) => ~r.returned /\ r.table = EmptyTable

\* A failing call whose copy of the table received inserts, made after an
\* earlier link_all had filled the runtime's table.
C1_Witness ==
    /\ runtime_dispatch_table # EmptyTable
    /\ \E S \in Calls :
          LET r == LinkResult(S) IN
          Failed(r) /\ r.local # runtime_dispatch_table

\* C2 as stated: after a failed link_all every foreign-code-table slot of
\* every input assembly holds what it held before the call.
C2_SlotsUntouchedOnFailure ==
    \A S \in Calls :
        LET r == LinkResult(S) IN
        Failed(r) => r.asms = assemblies

\* C2 amended: after a failed link_all the caller's table is unchanged and no
\* table is returned; a slot that held a pointer keeps it, and a slot that was
\* null is still null or holds the address of the entry of its name in the
\* copy, whose signature is the one the slot expects; nothing else changes.
C2_FailureWritesOnlyResolvedSlots ==
    \A S \in Calls :
        LET r == LinkResult(S) IN
        Failed(r) =>
            /\ r.base = runtime_dispatch_table
            /\ ~r.returned
            /\ \A a \in AsmIds :
                  /\ SlotIndexes(r.asms, a) = SlotIndexes(assemblies, a)
                  /\ [r.asms[a] EXCEPT !.info.dispatch_table =
                        assemblies[a].info.dispatch_table] = assemblies[a]
                  /\ \A i \in SlotIndexes(assemblies, a) :
                        LET old == assemblies[a].info.dispatch_table[i]
                            new == r.asms[a].info.dispatch_table[i]
                            def == r.local[old.name]
                        IN /\ new.name = old.name /\ new.sig = old.sig
                           /\ old.ptr # Null => new.ptr = old.ptr
                           /\ old.ptr = Null =>
                                \/ new.ptr = Null
                                \/ /\ def # NoDef
                                   /\ def.sig = old.sig
                                   /\ new.ptr = def.fn_ptr

\* A failed call that has written a slot.
C2_Witness ==
    \E S \in Calls :
        LET r == LinkResult(S) IN
        Failed(r) /\ r.asms # assemblies

\* C3: link_all returns a table or an error; when it returns a table no
\* slot of an input assembly is null.
C3_TableOrError ==
    \A S \in Calls :
        LET r == LinkResult(S) IN
        /\ r.returned \/ Failed(r)
        /\ ~(r.returned /\ Failed(r))
        /\ r.returned =>
              \A k \in 1..Len(S) : \A i \in SlotIndexes(r.asms, S[k]) :
                  r.asms[S[k]].info.dispatch_table[i].ptr # Null

\* A successful call that resolved a slot.
C3_Witness ==
    \E S \in Calls :
        LET r == LinkResult(S) IN
        r.returned /\ r.resolved > 0

FullyResolved(a) ==
    \A i \in SlotIndexes(assemblies, a) :
        assemblies[a].info.dispatch_table[i].ptr # Null

\* T with the exported functions of assembly a inserted.
WithExports(T, a) ==
    LET fns == assemblies[a].info.functions IN
    [n \in Names |->
        IF \E i \in 1..Len(fns) : fns[i].name = n
        THEN fns[CHOOSE i \in 1..Len(fns) : fns[i].name = n]
        ELSE T[n]]

\* C4: for an assembly A without a null slot, link_all([A], T) succeeds and
\* returns T with A's exported functions inserted and nothing else changed.
C4_ResolvedAssemblyAddsExports ==
    \A a \in AsmIds :
        Loaded(assemblies, a) /\ FullyResolved(a) =>
            LET r == LinkResult(<<a>>) IN
            /\ r.status = "ok"
            /\ r.table = WithExports(runtime_dispatch_table, a)

\* An assembly without a null slot, linked against a table that an earlier
\* link_all filled and that the call changes.
C4_Witness ==
    /\ runtime_dispatch_table # EmptyTable
    /\ \E a \in AsmIds :
          /\ Loaded(assemblies, a) /\ FullyResolved(a)
          /\ LinkResult(<<a>>).table # runtime_dispatch_table

\* C5: when link_all(S, T) returned T', link_all(S, T') on the assemblies as
\* the first call left them succeeds, resolves and writes no slot, and
\* returns a table equal to T'.
C5_RelinkIdempotent ==
    \A S \in Calls :
        LET r == LinkResult(S) IN
        r.returned =>
            LET again == link_all(S, r.asms, r.table) IN
            /\ again.status = "ok"
            /\ again.table = r.table
            /\ again.asms = r.asms
            /\ again.resolved = 0
            /\ again.to_link = <<>>

\* A successful first call that resolved a slot and inserted an export.
C5_Witness ==
    \E S \in Calls :
        LET r == LinkResult(S) IN
        r.returned /\ r.resolved > 0 /\ r.table # runtime_dispatch_table

\* The slots of the batch that are null and whose name the copy of the table
\* holds with another signature.
Mismatching(S, r) ==
    {k \in 1..Len(r.to_link) :
        LET slot == SlotAt(assemblies, r.to_link[k])
            def == r.local[slot.name]
        IN def # NoDef /\ def.sig # slot.sig}

\* C6: when a null slot's name is in the copy of the table with another
\* signature, link_all fails with SignatureMismatch in its first sweep and
\* that slot is never written, whatever else the batch is missing.
C6_SignatureMismatchFails ==
    \A S \in Calls :
        LET r == LinkResult(S) IN
        Mismatching(S, r) # {} =>
            /\ r.status = "SignatureMismatch"
            /\ r.sweeps = 1
            /\ \A k \in Mismatching(S, r) :
                  SlotAt(r.asms, r.to_link[k]).ptr = Null

\* A batch with a mismatching slot and a slot whose function is missing.
C6_Witness ==
    \E S \in Calls :
        LET r == LinkResult(S) IN
        /\ Mismatching(S, r) # {}
        /\ \E k \in 1..Len(r.to_link) :
              r.local[SlotAt(assemblies, r.to_link[k]).name] = NoDef

ExportedNames(asm) ==
    {asm.info.functions[i].name : i \in 1..Len(asm.info.functions)}

\* C7: when a slot of B holds the address of f exported by A, and swap
\* replaces A by a version that does not export f, B's slot is null after the
\* swap and link_all([B]) on the runtime's table fails with MissingDependency
\* naming f.
C7_SwapUnresolvesCallSites ==
    \A a \in AsmIds, b \in AsmIds, path \in Paths :
        (a # b /\ CanSwap(a) /\ Loaded(assemblies, b)) =>
            LET r == SwapResult(a, path)
                after == [assemblies EXCEPT ![a] = r.self]
            IN \A i \in SlotIndexes(assemblies, b) :
                  LET slot == assemblies[b].info.dispatch_table[i] IN
                  ( /\ r.status = "ok"
                    /\ slot.ptr = <<assemblies[a].library, slot.name>>
                    /\ slot.name \in ExportedNames(assemblies[a])
                    /\ slot.name \notin ExportedNames(r.self) ) =>
                      LET relink == link_all(<<b>>, after, r.table) IN
                      /\ after[b].info.dispatch_table[i].ptr = Null
                      /\ relink.status = "MissingDependency"
                      /\ slot.name \in relink.missing

Resident(inst) == libs[inst].resident

\* C8: no slot of a loaded assembly holds the address of a function of a
\* library that has been unloaded.
C8_NoStalePointers ==
    \A a \in AsmIds : \A i \in SlotIndexes(assemblies, a) :
        LET ptr == assemblies[a].info.dispatch_table[i].ptr IN
        ptr # Null => Resident(ptr[1])

\* C9: a library is unloaded only when no entry of the runtime's table has its
\* code in it and no heap object has its type information in it.
C9_UnloadedIsUnreferenced ==
    \A inst \in 1..Len(libs) :
        ~Resident(inst) =>
            /\ \A n \in Names : runtime_dispatch_table[n].fn_ptr[1] # inst
            /\ \A t \in heap : t[1] # inst

\* A library that a swap unloaded, of a file that defines a type of which the
\* heap holds an object and a function of a name the table holds.
C9_Witness ==
    \E inst \in 1..Len(libs) :
        /\ ~Resident(inst)
        /\ \E t \in heap : t[2] \in Library(libs[inst].path).types
        /\ \E i \in 1..Len(Library(libs[inst].path).functions) :
              runtime_dispatch_table[Library(libs[inst].path).functions[i].name]
                 # NoDef

InSeq(x, seq) == \E i \in 1..Len(seq) : seq[i] = x

\* C10: after a swap that returned Ok the replaced library is on the
\* assembly's legacy list exactly when map_memory reported an orphan; with no
\* orphan the legacy list is the one from before the swap and the replaced
\* library is unloaded.
C10_LegacyIffOrphans ==
    \A a \in AsmIds, path \in Paths :
        CanSwap(a) =>
            LET r == SwapResult(a, path)
                old == assemblies[a]
            IN r.status = "ok" =>
                /\ InSeq(old.library, r.self.legacy_libs)
                      <=> r.deleted_objects # {}
                /\ r.deleted_objects = {} =>
                      /\ r.self.legacy_libs = old.legacy_libs
                      /\ ~r.libs[old.library].resident
                /\ r.deleted_objects # {} => r.libs[old.library].resident

\* A swap without orphans of an assembly that already retains a library.
C10_Witness ==
    \E a \in AsmIds, path \in Paths :
        /\ CanSwap(a)
        /\ assemblies[a].legacy_libs # <<>>
        /\ LET r == SwapResult(a, path) IN
           r.status = "ok" /\ r.deleted_objects = {}

IsPrefix(s, t) == Len(s) <= Len(t) /\ \A i \in 1..Len(s) : t[i] = s[i]

Rejected(path) ==
    ~Library(path).exists \/ Library(path).abi_version # ABI_VERSION

\* C12: when the library at the path given to swap cannot be loaded or has
\* another ABI version, swap returns that error and the assembly (library,
\* info, path, legacy list), the runtime's table, the heap, the loaded
\* libraries and the collector's reference count are as before the call.
C12_FailedLoadChangesNothing ==
    \A a \in AsmIds, path \in Paths :
        (CanSwap(a) /\ Rejected(path)) =>
            LET r == SwapResult(a, path) IN
            /\ r.status = IF Library(path).exists THEN "AbiMismatch"
                                                   ELSE "LoadError"
            /\ r.self = assemblies[a]
            /\ r.table = runtime_dispatch_table
            /\ r.heap = heap
            /\ r.libs = libs
            /\ r.gc_strong = gc_strong

\* A swap to a rejected library of an assembly whose function is in the
\* runtime's table and of whose type the heap holds an object.
C12_Witness ==
    \E a \in AsmIds, path \in Paths :
        /\ CanSwap(a) /\ Rejected(path)
        /\ \E n \in ExportedNames(assemblies[a]) :
              runtime_dispatch_table[n] # NoDef
        /\ heap \cap assemblies[a].info.types # {}
        /\ SwapResult(a, path).status = "AbiMismatch"

\* C13: when the link of the new assembly fails in swap, swap returns an
\* error and the original assembly keeps its library, info and legacy list,
\* and every exported function of it that the runtime's table held is still
\* there.
C13_FailedLinkLeavesOriginal ==
    \A a \in AsmIds, path \in Paths :
        CanSwap(a) =>
            LET r == SwapResult(a, path) IN
            r.link_status \in {"SignatureMismatch", "MissingDependency"} =>
                /\ r.status = r.link_status
                /\ r.self = assemblies[a]
                /\ \A n \in ExportedNames(assemblies[a]) :
                      r.table[n] = runtime_dispatch_table[n]

\* C14: after a swap of A that returned Ok the runtime's table maps every
\* name the new version exports to the new definition, holds no definition
\* of the replaced library, and holds every entry whose definition is in the
\* library of another assembly as before the swap.
C14_SwapKeepsOtherEntries ==
    \A a \in AsmIds, path \in Paths :
        CanSwap(a) =>
            LET r == SwapResult(a, path) IN
            r.status = "ok" =>
                /\ \A i \in 1..Len(r.self.info.functions) :
                      r.table[r.self.info.functions[i].name] =
                          r.self.info.functions[i]
                /\ \A n \in Names :
                      r.table[n].fn_ptr[1] # assemblies[a].library
                /\ \A n \in Names, b \in AsmIds \ {a} :
                      ( /\ Loaded(assemblies, b)
                        /\ runtime_dispatch_table[n].fn_ptr[1] =
                              assemblies[b].library ) =>
                          r.table[n] = runtime_dispatch_table[n]

\* What load returns for the library at path in the current state; the caller
\* hands it a clone of its handle of the collector.
LoadResult(path) == load(path, libs, gc_strong + 1)

\* C15: load of a library whose ABI version is not the runtime's fails with
\* the ABI mismatch, constructs no Assembly, does not install the collector
\* in the library's allocator and leaves the collector's reference count and
\* the loaded libraries as they were; an Assembly is constructed only for a
\* library of the runtime's ABI version.
C15_AbiMismatchTouchesNothing ==
    \A path \in Paths :
        LET r == LoadResult(path) IN
        /\ (Library(path).exists
              /\ Library(path).abi_version # ABI_VERSION) =>
                /\ r.status = "AbiMismatch"
                /\ r.assembly = NoAssembly
                /\ ~r.allocator_handle
                /\ r.gc_strong = gc_strong
                /\ r.libs = libs
        /\ r.assembly # NoAssembly =>
                /\ r.status = "ok"
                /\ Library(path).exists
                /\ Library(path).abi_version = ABI_VERSION

\* The runtime, holding loaded libraries that share the collector, can load a
\* library of another ABI version into a free place, and load rejects it.
C15_Witness ==
    /\ gc_strong > 1
    /\ Len(libs) < MaxLibs
    /\ \E a \in AsmIds : ~Loaded(assemblies, a)
    /\ \E path \in Paths :
          /\ Library(path).exists
          /\ Library(path).abi_version # ABI_VERSION
          /\ LoadResult(path).status = "AbiMismatch"

\* The number of foreign-code-table slots of the batch S.
TotalSlots(S) == Len(SlotsOf(S, assemblies))

\* C16 as stated: link_all on a batch with N slots makes at most N sweeps.
C16_SweepsAtMostSlots ==
    \A S \in Calls : LinkResult(S).sweeps <= TotalSlots(S)

\* C16 amended: link_all on a batch with N slots makes at least one and at
\* most N + 1 sweeps.
C16_SweepsAtMostSlotsPlusOne ==
    \A S \in Calls :
        /\ LinkResult(S).sweeps >= 1
        /\ LinkResult(S).sweeps <= TotalSlots(S) + 1

\* A batch of loaded assemblies without any slot, for which the loop body
\* still runs once.
C16_Witness ==
    \E S \in Calls :
        /\ S # <<>>
        /\ TotalSlots(S) = 0
        /\ LinkResult(S).sweeps = 1

\* The slots collected at entry that are null in the assemblies asms.
StillNull(r) ==
    {k \in 1..Len(r.to_link) : SlotAt(r.asms, r.to_link[k]).ptr = Null}

\* C17: link_all ends after at most one sweep more than it collected slots;
\* every sweep but the first follows a sweep that resolved a slot, so it
\* starts with fewer outstanding slots than its predecessor, and the sweep
\* after which the loop stops without an error resolved none.
C17_ProgressOrStop ==
    \A S \in Calls :
        LET r == LinkResult(S) IN
        /\ Len(r.outstanding) = r.sweeps
        /\ r.sweeps <= Len(r.to_link) + 1
        /\ r.outstanding[1] = Len(r.to_link)
        /\ \A k \in 1..(r.sweeps - 1) :
              r.outstanding[k + 1] < r.outstanding[k]
        /\ r.status # "SignatureMismatch" =>
              Cardinality(StillNull(r)) = r.outstanding[r.sweeps]

\* A call with a second sweep, which starts with fewer outstanding slots and
\* with a slot still outstanding.
C17_Witness ==
    \E S \in Calls :
        LET r == LinkResult(S) IN
        /\ r.sweeps = 2
        /\ r.outstanding[2] < r.outstanding[1]
        /\ r.outstanding[2] > 0

\* The names of the slots collected at entry that the copy of the table does
\* not hold.
Absent(r) ==
    {SlotAt(assemblies, r.to_link[k]).name :
        k \in {j \in 1..Len(r.to_link) :
                  r.local[SlotAt(assemblies, r.to_link[j]).name] = NoDef}}

\* C18: link_all fails with MissingDependency only when its last sweep
\* resolved no slot and left slots null; the names it reports are then the
\* names of the slots null at entry that the copy of the table does not hold,
\* and a batch with such a slot and no mismatching slot fails this way.
C18_MissingReported ==
    \A S \in Calls :
        LET r == LinkResult(S) IN
        /\ r.status = "MissingDependency" =>
              /\ StillNull(r) # {}
              /\ Cardinality(StillNull(r)) = r.outstanding[r.sweeps]
              /\ r.missing = Absent(r)
              /\ \A k \in 1..Len(r.to_link) :
                    k \in StillNull(r) <=>
                        SlotAt(assemblies, r.to_link[k]).name \in r.missing
        /\ (Absent(r) # {} /\ Mismatching(S, r) = {}) =>
              r.status = "MissingDependency"

\* A call that resolved a slot in its first sweep and fails with
\* MissingDependency after its second.
C18_Witness ==
    \E S \in Calls :
        LET r == LinkResult(S) IN
        /\ r.status = "MissingDependency"
        /\ r.resolved > 0
        /\ r.sweeps = 2
        /\ r.missing # {}

\* C19: when link_all returns a table, every slot of the batch that was null
\* at entry holds the address of the returned table's entry of the slot's
\* name, and that entry has the signature the slot expects; every slot that
\* held a pointer at entry, and every slot outside the batch, is as it was.
C19_SuccessResolvesNullSlots ==
    \A S \in Calls :
        LET r == LinkResult(S) IN
        r.returned =>
            \A a \in AsmIds :
                /\ SlotIndexes(r.asms, a) = SlotIndexes(assemblies, a)
                /\ \A i \in SlotIndexes(assemblies, a) :
                      LET old == assemblies[a].info.dispatch_table[i]
                          new == r.asms[a].info.dispatch_table[i]
                          entry == r.table[old.name]
                      IN /\ (old.ptr # Null \/ ~InSeq(a, S)) => new = old
                         /\ (old.ptr = Null /\ InSeq(a, S)) =>
                               /\ entry # NoDef
                               /\ new = [old EXCEPT !.ptr = entry.fn_ptr]
                               /\ entry.sig = old.sig
                               /\ entry.name = old.name

\* A successful call on a batch with a slot that was null and a slot that
\* held a pointer at entry.
C19_Witness ==
    \E S \in Calls :
        /\ LinkResult(S).returned
        /\ \E a \in AsmIds : \E i, j \in SlotIndexes(assemblies, a) :
              /\ InSeq(a, S)
              /\ assemblies[a].info.dispatch_table[i].ptr = Null
              /\ assemblies[a].info.dispatch_table[j].ptr # Null

\* The places in the batch S of the assemblies that export the name n.
Exporters(S, n) ==
    {k \in 1..Len(S) : n \in ExportedNames(assemblies[S[k]])}

\* The definition of n that the assembly asm exports.
ExportOf(asm, n) ==
    asm.info.functions[CHOOSE i \in 1..Len(asm.info.functions) :
                          /\ asm.info.functions[i].name = n
                          /\ \A j \in 1..Len(asm.info.functions) :
                                asm.info.functions[j].name = n => j <= i]

\* The definition of n of the last assembly of S that exports n.
LastExport(S, n) ==
    ExportOf(assemblies[S[CHOOSE k \in Exporters(S, n) :
                            \A j \in Exporters(S, n) : j <= k]], n)

\* C20: the copy of the table that link_all works on, which is the table it
\* returns, has under every name that an assembly of the batch exports the
\* definition of the last assembly of the batch that exports it, whatever
\* the caller's table held and however many assemblies export the name, and
\* under every other name what the caller's table held; every slot the call
\* wrote holds the address of the entry of its name.
C20_LastInsertWins ==
    \A S \in Calls :
        LET r == LinkResult(S) IN
        /\ r.returned => r.table = r.local
        /\ \A n \in Names :
              r.local[n] = IF Exporters(S, n) # {}
                           THEN LastExport(S, n)
                           ELSE runtime_dispatch_table[n]
        /\ \A k \in 1..Len(r.to_link) :
              LET new == SlotAt(r.asms, r.to_link[k]) IN
              new.ptr # Null => new.ptr = r.local[new.name].fn_ptr

\* A successful call on a batch of which two assemblies export the same name
\* with different definitions, against a table that holds the name with a
\* definition that the call replaces.
C20_Witness ==
    \E S \in Calls, n \in Names :
        /\ LinkResult(S).returned
        /\ Cardinality(Exporters(S, n)) >= 2
        /\ \E j, k \in Exporters(S, n) :
              ExportOf(assemblies[S[j]], n) # ExportOf(assemblies[S[k]], n)
        /\ runtime_dispatch_table[n] # NoDef
        /\ runtime_dispatch_table[n] # LinkResult(S).table[n]

====
